---- MODULE Spec2Model ----
(***************************************************************************)
(* rollout-bucket: deterministic percentage bucketing.                     *)
(*                                                                         *)
(* A RolloutBucket instance holds one field, seed.  Its three methods      *)
(* getBucket, isEnabled and getVariant are built on hash32 of the          *)
(* murmur-hash package, which is not part of the repository: the model     *)
(* treats it as an unknown function of (key, seed) whose values are        *)
(* revealed the first time a key is hashed and stay fixed afterwards.      *)
(*                                                                         *)
(* JavaScript numbers are doubles, exact on every integer below 2^53, so   *)
(* Math.abs and % never overflow on a 32-bit hash.  TLC's integers are     *)
(* 32 bits wide, so a hash value is kept as a sign and two 16-bit limbs.   *)
(* Strings are sequences of one-character strings.  Percentages and        *)
(* weights are integers here (the code accepts any number).                *)
(***************************************************************************)
EXTENDS Integers, Sequences, FiniteSets, TLC

VARIABLES
    seed,        \* RolloutBucket.seed of the instance
    hashTable,   \* hash32 as far as it has been evaluated: <<key, seed>> -> hash
    last,        \* the most recent call on the instance and what it returned
    pinned,      \* an earlier call, remembered with its result
    intervened,  \* TRUE once a call with other arguments followed the pinned one
    made,        \* the seeds the two instances were constructed with
    peer,        \* a second instance: its seed and the last call it served
    variantsArg, \* the variants array passed to the last call, as the call left it
    tasks        \* the calls in progress, one frame for each concurrent caller

vars == <<seed, hashTable, last, pinned, intervened, made, peer, variantsArg, tasks>>

----------------------------------------------------------------------------
(* Bounds of the model *)

\* at most this many distinct (key, seed) pairs are hashed in one behaviour of Spec
MaxHashed == 2

\* the generated variant lists have at most this many entries
MaxVariants == 3

----------------------------------------------------------------------------
(* 32-bit hash values, signed or unsigned, as sign and magnitude hi * 2^16 + lo *)

Limb == 2^16

Int32(neg, hi, lo) == [neg |-> neg, hi |-> hi, lo |-> lo]

\* Math.abs(x)
MathAbs(x) == [x EXCEPT !.neg = FALSE]

\* x % 100 of JavaScript: the remainder carries the sign of the dividend
Rem100(x) ==
    LET m == (x.hi * (Limb % 100) + x.lo) % 100
    IN  IF x.neg THEN 0 - m ELSE m

----------------------------------------------------------------------------
(* Inputs *)

Null == "null"

Seeds == {0, 12345}

\* the strings "a" and "a:b"; "c" and "b:c"
Features == {<<"a">>, <<"a", ":", "b">>}
Identifiers == {<<"c">>, <<"b", ":", "c">>}

\* -2^31, 0, 2^32 - 1 and the documented 2847562934
HashMin == Int32(TRUE, 32768, 0)
HashMax == Int32(FALSE, 65535, 65535)
HashVals == {HashMin, Int32(FALSE, 0, 0), HashMax, Int32(FALSE, 43450, 23734)}

\* one value for every residue modulo 100, of either sign, the values above,
\* -1 and the documented 1523847123
WideHashVals ==
    {Int32(b % 2 = 1, 300 + b, 65436 - 35 * b) : b \in 0..99}
        \cup HashVals \cup {Int32(TRUE, 0, 1), Int32(FALSE, 23252, 4051)}

Percentages == {-10, 34, 35, 150}
WidePercentages == -10..150

VariantNames == <<"a", "b", "c", "d">>
Weights == {-40, 0, 10, 40, 60, 100}

Variant(n, w) == [name |-> n, weight |-> w]

\* the lists of the README, the technical blog and the tests
DocVariantLists ==
    {<<Variant("only", 100)>>,
     <<Variant("a", 60), Variant("b", 60)>>,
     <<Variant("a", 10), Variant("b", 10), Variant("c", 10)>>,
     <<Variant("a", 30), Variant("b", 30), Variant("c", 40)>>,
     <<Variant("control", 50), Variant("a", 30), Variant("b", 20)>>,
     <<Variant("a", 33), Variant("b", 33), Variant("c", 34)>>}

\* every list of at most MaxVariants entries with weights in Weights
GenVariantLists ==
    UNION {{[k \in 1..n |-> Variant(VariantNames[k], w[k])] : w \in [1..n -> Weights]}
           : n \in 0..MaxVariants}

VariantLists ==
    {<<>>, <<Variant("only", 100)>>,
     <<Variant("a", 60), Variant("b", 60)>>,
     <<Variant("a", 10), Variant("b", 10), Variant("c", 10)>>}
WideVariantLists == DocVariantLists \cup GenVariantLists

----------------------------------------------------------------------------
(* The methods of RolloutBucket *)

\* constructor(seed): this.seed = seed
constructor(sd) == sd

\* hash32(key, seed) of murmur-hash, as evaluated so far
hash32(table, k, sd) == table[<<k, sd>>]

\* a key that keeps the two strings apart
KeyPair(feature, identifier) == <<feature, identifier>>

\* `${feature}:${identifier}`
Key(feature, identifier) == feature \o <<":">> \o identifier

\* getBucket without Math.abs
getBucketSigned(table, sd, feature, identifier) ==
    Rem100(hash32(table, Key(feature, identifier), sd))

getBucket(table, sd, feature, identifier) ==
    LET key == Key(feature, identifier)
        hash == hash32(table, key, sd)
    IN  Rem100(MathAbs(hash))

\* isEnabled rejecting a percentage outside 0..100
isEnabledRejecting(table, sd, feature, identifier, percentage) ==
    IF percentage <= 0 \/ percentage > 100 THEN FALSE
    ELSE getBucket(table, sd, feature, identifier) < percentage

\* isEnabled comparing with <=
isEnabledLte(table, sd, feature, identifier, percentage) ==
    IF percentage <= 0 THEN FALSE
    ELSE IF percentage >= 100 THEN TRUE
    ELSE getBucket(table, sd, feature, identifier) <= percentage

\* isEnabled with every bound inclusive
isEnabledInclusive(table, sd, feature, identifier, percentage) ==
    IF percentage < 0 THEN FALSE
    ELSE IF percentage > 100 THEN TRUE
    ELSE getBucket(table, sd, feature, identifier) <= percentage

isEnabled(table, sd, feature, identifier, percentage) ==
    IF percentage <= 0 THEN FALSE
    ELSE IF percentage >= 100 THEN TRUE
    ELSE LET bucket == getBucket(table, sd, feature, identifier)
         IN  bucket < percentage

\* a fallback of null
FallbackNull(variants) == Null

\* a fallback to the first entry
FallbackFirst(variants) ==
    IF Len(variants) = 0 THEN Null ELSE variants[1].name

\* variants[variants.length - 1]?.name ?? null
Fallback(variants) ==
    IF Len(variants) = 0 THEN Null ELSE variants[Len(variants)].name

\* the loop comparing with <=
RECURSIVE LoopInclusive(_, _, _, _)
LoopInclusive(variants, bucket, k, cumulative) ==
    IF k > Len(variants) THEN Fallback(variants)
    ELSE LET c == cumulative + variants[k].weight
         IN  IF bucket <= c THEN variants[k].name
             ELSE LoopInclusive(variants, bucket, k + 1, c)

\* the loop comparing with the entry's own weight
RECURSIVE LoopNoAccumulate(_, _, _, _)
LoopNoAccumulate(variants, bucket, k, cumulative) ==
    IF k > Len(variants) THEN Fallback(variants)
    ELSE IF bucket < variants[k].weight THEN variants[k].name
         ELSE LoopNoAccumulate(variants, bucket, k + 1, cumulative)

\* the loop testing the bucket before it adds the entry's weight
RECURSIVE LoopTestFirst(_, _, _, _)
LoopTestFirst(variants, bucket, k, cumulative) ==
    IF k > Len(variants) THEN Fallback(variants)
    ELSE IF bucket < cumulative THEN variants[k].name
         ELSE LoopTestFirst(variants, bucket, k + 1, cumulative + variants[k].weight)

\* the for loop of getVariant from entry k on, and the fallback after it
RECURSIVE Loop(_, _, _, _)
Loop(variants, bucket, k, cumulative) ==
    IF k > Len(variants) THEN Fallback(variants)
    ELSE LET c == cumulative + variants[k].weight
         IN  IF bucket < c THEN variants[k].name
             ELSE Loop(variants, bucket, k + 1, c)

\* getVariant without the guard, reading .name of the missing last entry
getVariantUnguarded(table, sd, feature, identifier, variants) ==
    IF Len(variants) = 0 THEN "TypeError"
    ELSE Loop(variants, getBucket(table, sd, feature, identifier), 1, 0)

\* getVariant throwing on a negative weight
getVariantValidating(table, sd, feature, identifier, variants) ==
    IF Len(variants) = 0 THEN Null
    ELSE IF \E k \in 1..Len(variants) : variants[k].weight < 0 THEN "RangeError"
    ELSE Loop(variants, getBucket(table, sd, feature, identifier), 1, 0)

getVariant(table, sd, feature, identifier, variants) ==
    IF Len(variants) = 0 THEN Null
    ELSE LET bucket == getBucket(table, sd, feature, identifier)
         IN  Loop(variants, bucket, 1, 0)

\* getVariant as printed in the technical blog: the bucket first, the same loop,
\* and variants[variants.length - 1]?.name ?? null with no guard before them
getVariantBlog(table, sd, feature, identifier, variants) ==
    LET bucket == getBucket(table, sd, feature, identifier)
    IN  Loop(variants, bucket, 1, 0)

----------------------------------------------------------------------------
(* Calls *)

NoCall ==
    [op |-> "none", feature |-> <<>>, identifier |-> <<>>, percentage |-> 0,
     variants |-> <<>>, result |-> Null]

Call(op, feature, identifier, percentage, variants, result) ==
    [op |-> op, feature |-> feature, identifier |-> identifier,
     percentage |-> percentage, variants |-> variants, result |-> result]

SameCall(c, d) ==
    /\ c.op = d.op
    /\ c.feature = d.feature
    /\ c.identifier = d.identifier
    /\ c.percentage = d.percentage
    /\ c.variants = d.variants

\* The tables hash32(k, sd) can leave behind: the value of a pair already
\* hashed is fixed, a new pair may hash to any value.
Reveal(k, sd) ==
    IF <<k, sd>> \in DOMAIN hashTable THEN {hashTable}
    ELSE IF Cardinality(DOMAIN hashTable) < MaxHashed
         THEN {hashTable @@ (<<k, sd>> :> h) : h \in HashVals}
         ELSE {}

\* getVariant taking the last entry off the array with pop()
ArrayAfterPop(variants) == SubSeq(variants, 1, Len(variants) - 1)

\* getVariant only reads its variants argument: the array is as it was
ArrayAfterGetVariant(variants) == variants

\* Whether isEnabled gets as far as getBucket
IsEnabledHashes(percentage) == ~(percentage <= 0) /\ ~(percentage >= 100)

\* The call now in `last` may be remembered, once.
Remember(call) ==
    \/ /\ pinned.op = "none"
       /\ pinned' = call
       /\ intervened' = FALSE
    \/ /\ pinned' = pinned
       /\ intervened' = (intervened \/ (pinned.op # "none" /\ ~SameCall(pinned, call)))

DoGetBucket(feature, identifier) ==
    \E t \in Reveal(Key(feature, identifier), seed) :
        /\ hashTable' = t
        /\ last' = Call("getBucket", feature, identifier, 0, <<>>,
                        getBucket(t, seed, feature, identifier))
        /\ variantsArg' = <<>>
        /\ UNCHANGED seed

DoIsEnabled(feature, identifier, percentage) ==
    \E t \in (IF IsEnabledHashes(percentage)
              THEN Reveal(Key(feature, identifier), seed) ELSE {hashTable}) :
        /\ hashTable' = t
        /\ last' = Call("isEnabled", feature, identifier, percentage, <<>>,
                        isEnabled(t, seed, feature, identifier, percentage))
        /\ variantsArg' = <<>>
        /\ UNCHANGED seed

DoGetVariant(feature, identifier, variants) ==
    \E t \in (IF Len(variants) # 0
              THEN Reveal(Key(feature, identifier), seed) ELSE {hashTable}) :
        /\ hashTable' = t
        /\ last' = Call("getVariant", feature, identifier, 0, variants,
                        getVariant(t, seed, feature, identifier, variants))
        /\ variantsArg' = ArrayAfterGetVariant(variants)
        /\ UNCHANGED seed

----------------------------------------------------------------------------
(* Spec: one instance serving any sequence of calls *)

\* new RolloutBucket(seed)
Init ==
    /\ made \in {<<sd, sd>> : sd \in Seeds}
    /\ seed = constructor(made[1])
    /\ peer = [seed |-> constructor(made[2]), last |-> NoCall]
    /\ hashTable = <<>>
    /\ last = NoCall
    /\ pinned = NoCall
    /\ intervened = FALSE
    /\ variantsArg = <<>>
    /\ tasks = <<>>

\* getBucket advancing this.seed
GetBucketReseeds ==
    \E feature \in Features, identifier \in Identifiers :
        \E t \in Reveal(Key(feature, identifier), seed) :
            /\ hashTable' = t
            /\ last' = Call("getBucket", feature, identifier, 0, <<>>,
                            getBucket(t, seed, feature, identifier))
            /\ seed' \in Seeds \ {seed}
            /\ Remember(last')
            /\ variantsArg' = <<>>
            /\ UNCHANGED <<made, peer, tasks>>

GetBucket ==
    \E feature \in Features, identifier \in Identifiers :
        /\ DoGetBucket(feature, identifier)
        /\ Remember(last')
        /\ UNCHANGED <<made, peer, tasks>>

IsEnabled ==
    \E feature \in Features, identifier \in Identifiers, percentage \in Percentages :
        /\ DoIsEnabled(feature, identifier, percentage)
        /\ Remember(last')
        /\ UNCHANGED <<made, peer, tasks>>

GetVariant ==
    \E feature \in Features, identifier \in Identifiers, variants \in VariantLists :
        /\ DoGetVariant(feature, identifier, variants)
        /\ Remember(last')
        /\ UNCHANGED <<made, peer, tasks>>

Next == GetBucket \/ IsEnabled \/ GetVariant

Spec == Init /\ [][Next]_vars

----------------------------------------------------------------------------
(* SpecPure: one call, on a key whose hash is drawn from the wide set *)

PureFeatures == {<<>>, <<"a">>}
PureIdentifiers == {<<>>}

PureInit ==
    /\ made \in {<<sd, sd>> : sd \in Seeds}
    /\ seed = constructor(made[1])
    /\ peer = [seed |-> constructor(made[2]), last |-> NoCall]
    /\ variantsArg = <<>>
    /\ tasks = <<>>
    /\ hashTable \in {(<<Key(f, i), seed>> :> h) :
                        f \in PureFeatures, i \in PureIdentifiers, h \in WideHashVals}
    /\ last = NoCall
    /\ pinned = NoCall
    /\ intervened = FALSE

Hashed(feature, identifier) == <<Key(feature, identifier), seed>> \in DOMAIN hashTable

PureGetBucket ==
    /\ last.op = "none"
    /\ \E feature \in PureFeatures, identifier \in PureIdentifiers :
        /\ Hashed(feature, identifier)
        /\ DoGetBucket(feature, identifier)
    /\ UNCHANGED <<pinned, intervened, made, peer, tasks>>

PureIsEnabled ==
    /\ last.op = "none"
    /\ \E feature \in PureFeatures, identifier \in PureIdentifiers,
          percentage \in WidePercentages :
        /\ Hashed(feature, identifier)
        /\ DoIsEnabled(feature, identifier, percentage)
    /\ UNCHANGED <<pinned, intervened, made, peer, tasks>>

PureGetVariant ==
    /\ last.op = "none"
    /\ \E feature \in PureFeatures, identifier \in PureIdentifiers,
          variants \in WideVariantLists :
        /\ Hashed(feature, identifier)
        /\ DoGetVariant(feature, identifier, variants)
    /\ UNCHANGED <<pinned, intervened, made, peer, tasks>>

PureNext == PureGetBucket \/ PureIsEnabled \/ PureGetVariant

SpecPure == PureInit /\ [][PureNext]_vars

----------------------------------------------------------------------------
(* SpecTwo: two instances, each serving any sequence of calls *)

TwoPercentages == {35}
TwoVariantLists == {<<Variant("a", 60), Variant("b", 60)>>}

\* two instances whose constructor ignores its argument
TwoInitUnseeded ==
    /\ made \in Seeds \X Seeds
    /\ seed \in Seeds
    /\ peer \in {[seed |-> sd, last |-> NoCall] : sd \in Seeds}
    /\ hashTable = <<>>
    /\ last = NoCall
    /\ pinned = NoCall
    /\ intervened = FALSE
    /\ variantsArg = <<>>
    /\ tasks = <<>>

\* new RolloutBucket(made[1]) and new RolloutBucket(made[2])
TwoInit ==
    /\ made \in Seeds \X Seeds
    /\ seed = constructor(made[1])
    /\ peer = [seed |-> constructor(made[2]), last |-> NoCall]
    /\ hashTable = <<>>
    /\ last = NoCall
    /\ pinned = NoCall
    /\ intervened = FALSE
    /\ variantsArg = <<>>
    /\ tasks = <<>>

FirstGetBucket ==
    /\ \E feature \in Features, identifier \in Identifiers :
        DoGetBucket(feature, identifier)
    /\ UNCHANGED <<pinned, intervened, made, peer, tasks>>

FirstIsEnabled ==
    /\ \E feature \in Features, identifier \in Identifiers,
          percentage \in TwoPercentages :
        DoIsEnabled(feature, identifier, percentage)
    /\ UNCHANGED <<pinned, intervened, made, peer, tasks>>

FirstGetVariant ==
    /\ \E feature \in Features, identifier \in Identifiers,
          variants \in TwoVariantLists :
        DoGetVariant(feature, identifier, variants)
    /\ UNCHANGED <<pinned, intervened, made, peer, tasks>>

PeerGetBucket ==
    /\ \E feature \in Features, identifier \in Identifiers :
        \E t \in Reveal(Key(feature, identifier), peer.seed) :
            /\ hashTable' = t
            /\ peer' = [peer EXCEPT !.last =
                           Call("getBucket", feature, identifier, 0, <<>>,
                                getBucket(t, peer.seed, feature, identifier))]
    /\ UNCHANGED <<seed, last, pinned, intervened, made, variantsArg, tasks>>

PeerIsEnabled ==
    /\ \E feature \in Features, identifier \in Identifiers,
          percentage \in TwoPercentages :
        \E t \in (IF IsEnabledHashes(percentage)
                  THEN Reveal(Key(feature, identifier), peer.seed) ELSE {hashTable}) :
            /\ hashTable' = t
            /\ peer' = [peer EXCEPT !.last =
                           Call("isEnabled", feature, identifier, percentage, <<>>,
                                isEnabled(t, peer.seed, feature, identifier, percentage))]
    /\ UNCHANGED <<seed, last, pinned, intervened, made, variantsArg, tasks>>

PeerGetVariant ==
    /\ \E feature \in Features, identifier \in Identifiers,
          variants \in TwoVariantLists :
        \E t \in (IF Len(variants) # 0
                  THEN Reveal(Key(feature, identifier), peer.seed) ELSE {hashTable}) :
            /\ hashTable' = t
            /\ peer' = [peer EXCEPT !.last =
                           Call("getVariant", feature, identifier, 0, variants,
                                getVariant(t, peer.seed, feature, identifier, variants))]
    /\ UNCHANGED <<seed, last, pinned, intervened, made, variantsArg, tasks>>

TwoNext ==
    \/ FirstGetBucket \/ FirstIsEnabled \/ FirstGetVariant
    \/ PeerGetBucket \/ PeerIsEnabled \/ PeerGetVariant

SpecTwo == TwoInit /\ [][TwoNext]_vars

----------------------------------------------------------------------------
(* SpecConc: concurrent callers on the two instances, one statement at a time *)

Tasks == {1, 2}
Instances == {1, 2}

ConcFeatures == {<<"a">>}
ConcIdentifiers == {<<"c">>}
ConcPercentages == {-10, 35}
ConcVariantLists ==
    {<<>>, <<Variant("a", 60), Variant("b", 60)>>,
     <<Variant("a", 10), Variant("b", 10), Variant("c", 10)>>}

\* this.seed of the instance a caller is in
SeedOf(inst) == IF inst = 1 THEN seed ELSE peer.seed

\* the frame of a caller: the call, where it is, and the locals bucket,
\* cumulative and the position k of the for loop
Frame(pc, inst, call, bucket, k, cumulative) ==
    [pc |-> pc, inst |-> inst, call |-> call, bucket |-> bucket, k |-> k,
     cumulative |-> cumulative]

IdleFrame == Frame("idle", 1, NoCall, 0, 0, 0)

\* the result slot of a call that has not returned yet, of the method's return
\* type: number, boolean, T | null
Pending(op) ==
    IF op = "getBucket" THEN 0 ELSE IF op = "isEnabled" THEN FALSE ELSE Null

Return(t, value) ==
    tasks' = [tasks EXCEPT ![t] =
                 Frame("done", @.inst, [@.call EXCEPT !.result = value], 0, 0, 0)]

ConcInit ==
    /\ made \in Seeds \X Seeds
    /\ seed = constructor(made[1])
    /\ peer = [seed |-> constructor(made[2]), last |-> NoCall]
    /\ hashTable = <<>>
    /\ last = NoCall
    /\ pinned = NoCall
    /\ intervened = FALSE
    /\ variantsArg = <<>>
    /\ tasks = [t \in Tasks |-> IdleFrame]

\* a caller enters a method of one of the instances
Enter(t) ==
    /\ tasks[t].pc \in {"idle", "done"}
    /\ \E inst \in Instances, feature \in ConcFeatures, identifier \in ConcIdentifiers :
        \E call \in
            {Call("getBucket", feature, identifier, 0, <<>>, Pending("getBucket"))}
            \cup {Call("isEnabled", feature, identifier, p, <<>>, Pending("isEnabled")) :
                    p \in ConcPercentages}
            \cup {Call("getVariant", feature, identifier, 0, v, Pending("getVariant")) :
                    v \in ConcVariantLists} :
            tasks' = [tasks EXCEPT ![t] = Frame("entered", inst, call, 0, 0, 0)]
    /\ UNCHANGED <<seed, hashTable, last, pinned, intervened, made, peer, variantsArg>>

\* getBucket: key, hash, return
StepGetBucket(t) ==
    LET f == tasks[t] IN
    /\ f.pc = "entered"
    /\ f.call.op = "getBucket"
    /\ \E tb \in Reveal(Key(f.call.feature, f.call.identifier), SeedOf(f.inst)) :
        /\ hashTable' = tb
        /\ Return(t, getBucket(tb, SeedOf(f.inst), f.call.feature, f.call.identifier))
    /\ UNCHANGED <<seed, last, pinned, intervened, made, peer, variantsArg>>

\* isEnabled: the two early returns, then const bucket = this.getBucket(...)
StepIsEnabled(t) ==
    LET f == tasks[t] IN
    /\ f.pc = "entered"
    /\ f.call.op = "isEnabled"
    /\ IF f.call.percentage <= 0 THEN Return(t, FALSE) /\ UNCHANGED hashTable
       ELSE IF f.call.percentage >= 100 THEN Return(t, TRUE) /\ UNCHANGED hashTable
       ELSE \E tb \in Reveal(Key(f.call.feature, f.call.identifier), SeedOf(f.inst)) :
               /\ hashTable' = tb
               /\ tasks' = [tasks EXCEPT ![t] =
                     Frame("compare", f.inst, f.call,
                           getBucket(tb, SeedOf(f.inst), f.call.feature,
                                     f.call.identifier), 0, 0)]
    /\ UNCHANGED <<seed, last, pinned, intervened, made, peer, variantsArg>>

\* isEnabled: return bucket < percentage
StepCompare(t) ==
    LET f == tasks[t] IN
    /\ f.pc = "compare"
    /\ Return(t, f.bucket < f.call.percentage)
    /\ UNCHANGED <<seed, hashTable, last, pinned, intervened, made, peer, variantsArg>>

\* getVariant: the length guard, const bucket = this.getBucket(...), let cumulative = 0
StepGetVariant(t) ==
    LET f == tasks[t] IN
    /\ f.pc = "entered"
    /\ f.call.op = "getVariant"
    /\ IF Len(f.call.variants) = 0 THEN Return(t, Null) /\ UNCHANGED hashTable
       ELSE \E tb \in Reveal(Key(f.call.feature, f.call.identifier), SeedOf(f.inst)) :
               /\ hashTable' = tb
               /\ tasks' = [tasks EXCEPT ![t] =
                     Frame("loop", f.inst, f.call,
                           getBucket(tb, SeedOf(f.inst), f.call.feature,
                                     f.call.identifier), 1, 0)]
    /\ UNCHANGED <<seed, last, pinned, intervened, made, peer, variantsArg>>

\* one iteration with cumulative kept in one place for every caller
StepLoopShared(t) ==
    LET f == tasks[t]
        c == tasks[1].cumulative + f.call.variants[f.k].weight
    IN
    /\ f.pc = "loop"
    /\ IF f.k > Len(f.call.variants) THEN Return(t, Fallback(f.call.variants))
       ELSE IF f.bucket < c THEN Return(t, f.call.variants[f.k].name)
       ELSE tasks' = [tasks EXCEPT ![t] = Frame("loop", f.inst, f.call, f.bucket, f.k + 1, c),
                                   ![1].cumulative = c]
    /\ UNCHANGED <<seed, hashTable, last, pinned, intervened, made, peer, variantsArg>>

\* one iteration that goes round again on the same entry when the bucket is
\* not below the cumulative weight
StepLoopStuck(t) ==
    LET f == tasks[t] IN
    /\ f.pc = "loop"
    /\ IF f.k > Len(f.call.variants) THEN Return(t, Fallback(f.call.variants))
       ELSE LET c == f.cumulative + f.call.variants[f.k].weight
            IN  IF f.bucket < c THEN Return(t, f.call.variants[f.k].name)
                ELSE tasks' = [tasks EXCEPT ![t] =
                                  Frame("loop", f.inst, f.call, f.bucket, f.k, f.cumulative)]
    /\ UNCHANGED <<seed, hashTable, last, pinned, intervened, made, peer, variantsArg>>

\* getVariant: one iteration of the for loop, or the fallback after it
StepLoop(t) ==
    LET f == tasks[t] IN
    /\ f.pc = "loop"
    /\ IF f.k > Len(f.call.variants) THEN Return(t, Fallback(f.call.variants))
       ELSE LET c == f.cumulative + f.call.variants[f.k].weight
            IN  IF f.bucket < c THEN Return(t, f.call.variants[f.k].name)
                ELSE tasks' = [tasks EXCEPT ![t] =
                                  Frame("loop", f.inst, f.call, f.bucket, f.k + 1, c)]
    /\ UNCHANGED <<seed, hashTable, last, pinned, intervened, made, peer, variantsArg>>

ConcNext ==
    \E t \in Tasks :
        \/ Enter(t)
        \/ StepGetBucket(t)
        \/ StepIsEnabled(t)
        \/ StepCompare(t)
        \/ StepGetVariant(t)
        \/ StepLoop(t)

SpecConc == ConcInit /\ [][ConcNext]_vars

\* where every caller is: the statement it is at and the entry its loop is on
Position == [t \in Tasks |-> <<tasks[t].pc, tasks[t].k>>]

\* The methods are synchronous and wait on nothing: a call that has been
\* entered goes on to its next statement.
ConcFairness ==
    \A t \in Tasks :
        /\ WF_Position(StepGetBucket(t))
        /\ WF_Position(StepIsEnabled(t))
        /\ WF_Position(StepCompare(t))
        /\ WF_Position(StepGetVariant(t))
        /\ WF_Position(StepLoop(t))

SpecConcFair == ConcInit /\ [][ConcNext]_vars /\ ConcFairness

----------------------------------------------------------------------------
(* Properties *)

\* the hash of the key of the last call, and the bucket it falls in
LastHash == hash32(hashTable, Key(last.feature, last.identifier), seed)
LastBucket == getBucket(hashTable, seed, last.feature, last.identifier)

\* the sum of the weights of the first k entries
RECURSIVE CumulativeWeight(_, _)
CumulativeWeight(variants, k) ==
    IF k = 0 THEN 0 ELSE CumulativeWeight(variants, k - 1) + variants[k].weight

TotalWeight(variants) == CumulativeWeight(variants, Len(variants))

NonNegative(variants) == \A k \in 1..Len(variants) : variants[k].weight >= 0

\* C1: whatever the seed, the strings and the value of the hash (signed or
\* unsigned, -2^31 and 2^32 - 1 included), getBucket returns an integer from
\* 0 to 99.
C1_BucketRange ==
    last.op = "getBucket" => last.result \in 0..99

\* getBucket has returned on the empty strings with a hash of -2^31
C1_Witness ==
    /\ last.op = "getBucket"
    /\ last.feature = <<>>
    /\ last.identifier = <<>>
    /\ LastHash = HashMin
    /\ last.result = 48

\* C2: a call repeated with the same arguments on the same instance returns
\* what it returned before, whatever calls were made in between.
C2_Deterministic ==
    (pinned.op # "none" /\ SameCall(pinned, last)) => last.result = pinned.result

\* a getVariant call has been repeated after a call with other arguments
C2_Witness ==
    /\ pinned.op = "getVariant"
    /\ Len(pinned.variants) > 1
    /\ SameCall(pinned, last)
    /\ intervened
    /\ last.result = pinned.result

\* C3: once isEnabled is true at a percentage it is true at every larger
\* percentage, within 0..100 or not, for the same feature and identifier.
C3_Monotone ==
    (last.op = "isEnabled" /\ last.result = TRUE) =>
        \A p \in WidePercentages :
            p > last.percentage =>
                isEnabled(hashTable, seed, last.feature, last.identifier, p) = TRUE

\* isEnabled has returned true at the first percentage above the bucket
C3_Witness ==
    /\ last.op = "isEnabled"
    /\ last.result = TRUE
    /\ last.percentage = LastBucket + 1
    /\ last.percentage < 100

\* C4: isEnabled(feature, identifier, percentage) is getBucket(feature,
\* identifier) < percentage, for every percentage: true at bucket + 1, false at
\* the bucket.
C4_Threshold ==
    last.op = "isEnabled" => last.result = (LastBucket < last.percentage)

\* isEnabled has returned false at a percentage equal to a positive bucket
C4_Witness ==
    /\ last.op = "isEnabled"
    /\ last.percentage = LastBucket
    /\ LastBucket > 0
    /\ last.result = FALSE

\* C5: isEnabled is false at every percentage <= 0 and true at every
\* percentage >= 100, whatever the bucket.
C5_Boundary ==
    last.op = "isEnabled" =>
        /\ last.percentage <= 0 => last.result = FALSE
        /\ last.percentage >= 100 => last.result = TRUE

\* isEnabled has returned false at percentage 0 for a key of bucket 0
C5_Witness ==
    /\ last.op = "isEnabled"
    /\ last.percentage = 0
    /\ LastBucket = 0
    /\ last.result = FALSE

\* C6: getVariant returns null on the empty variant list, for every feature
\* and identifier.
C6_EmptyList ==
    (last.op = "getVariant" /\ last.variants = <<>>) => last.result = Null

\* getVariant has returned null on the empty list
C6_Witness ==
    /\ last.op = "getVariant"
    /\ last.variants = <<>>
    /\ last.feature # <<>>
    /\ last.result = Null

\* C7: on a non-empty variant list, whatever its weights, getVariant never
\* returns null: it returns the name of an entry of the list, and the name of
\* the single entry of [{name: 'only', weight: 100}].
C7_NeverNull ==
    (last.op = "getVariant" /\ last.variants # <<>>) =>
        /\ last.result # Null
        /\ \E k \in 1..Len(last.variants) : last.result = last.variants[k].name
        /\ last.variants = <<Variant("only", 100)>> => last.result = "only"

\* getVariant has returned the last name of a list whose weights are all <= 0
C7_Witness ==
    /\ last.op = "getVariant"
    /\ Len(last.variants) = 2
    /\ \A k \in 1..2 : last.variants[k].weight <= 0
    /\ last.variants[1].weight < 0
    /\ last.result = last.variants[2].name

\* C8, as claimed: on a non-empty variant list whose weights (any numbers) do
\* not sum to 100, a bucket >= the sum of the weights gets the last entry's
\* name.
C8_FallbackAnyWeights ==
    (/\ last.op = "getVariant"
     /\ last.variants # <<>>
     /\ TotalWeight(last.variants) # 100
     /\ LastBucket >= TotalWeight(last.variants)) =>
        last.result = last.variants[Len(last.variants)].name

\* C8, amended: on a non-empty variant list of non-negative weights that do
\* not sum to 100, a bucket >= the sum of the weights gets the last entry's
\* name.
C8_FallbackNonNegative ==
    (/\ last.op = "getVariant"
     /\ last.variants # <<>>
     /\ NonNegative(last.variants)
     /\ TotalWeight(last.variants) # 100
     /\ LastBucket >= TotalWeight(last.variants)) =>
        last.result = last.variants[Len(last.variants)].name

\* getVariant has returned c for weights [10, 10, 10] on a bucket of 30
C8_Witness ==
    /\ last.op = "getVariant"
    /\ last.variants = <<Variant("a", 10), Variant("b", 10), Variant("c", 10)>>
    /\ LastBucket = 30
    /\ last.result = "c"

\* C9: on a list of non-negative weights summing to exactly 100, entry k is
\* returned exactly for the buckets from the sum of the weights before it up
\* to, but not including, the sum of the weights through it; so each entry is
\* returned for as many of the 100 buckets as its weight.
C9_CumulativeRanges ==
    (/\ last.op = "getVariant"
     /\ NonNegative(last.variants)
     /\ TotalWeight(last.variants) = 100) =>
        \A k \in 1..Len(last.variants) :
            /\ (last.result = last.variants[k].name) <=>
                   (/\ CumulativeWeight(last.variants, k - 1) <= LastBucket
                    /\ LastBucket < CumulativeWeight(last.variants, k))
            /\ Cardinality({b \in 0..99 :
                   Loop(last.variants, b, 1, 0) = last.variants[k].name})
                   = last.variants[k].weight

\* getVariant has returned b for weights [30, 30, 40] on a bucket of 59
C9_Witness ==
    /\ last.op = "getVariant"
    /\ last.variants = <<Variant("a", 30), Variant("b", 30), Variant("c", 40)>>
    /\ LastBucket = 59
    /\ last.result = "b"

\* the first entry whose cumulative weight is >= 100, or 0 when there is none
Crossover(variants) ==
    LET at == {k \in 1..Len(variants) : CumulativeWeight(variants, k) >= 100}
    IN  IF at = {} THEN 0 ELSE CHOOSE k \in at : \A j \in at : k <= j

Errors == {"TypeError", "RangeError"}

\* C12: no call fails: getBucket returns a number, isEnabled a boolean and
\* getVariant a name of the list or null, on empty strings, on percentages
\* outside 0..100, on the empty list and on weights that are negative, zero or
\* do not sum to 100.
C12_NeverFails ==
    /\ last.op = "getBucket" => last.result \in Int
    /\ last.op = "isEnabled" => last.result \in BOOLEAN
    /\ last.op = "getVariant" =>
           /\ last.result \notin Errors
           /\ \/ last.result = Null
              \/ \E k \in 1..Len(last.variants) : last.result = last.variants[k].name

\* getVariant has returned a name on empty strings and a list with a negative
\* weight that does not sum to 100
C12_Witness ==
    /\ last.op = "getVariant"
    /\ last.feature = <<>>
    /\ last.identifier = <<>>
    /\ Len(last.variants) = 3
    /\ last.variants[2].weight < 0
    /\ TotalWeight(last.variants) # 100
    /\ last.result = last.variants[3].name

\* C13: the seed of the instance is the one it was constructed with after any
\* sequence of calls, and getVariant leaves the array it was given as it was.
C13_Immutable ==
    /\ seed = made[1]
    /\ last.op = "getVariant" => variantsArg = last.variants

\* getVariant has returned on a list of three entries after earlier calls
C13_Witness ==
    /\ last.op = "getVariant"
    /\ Len(last.variants) = 3
    /\ variantsArg = last.variants
    /\ pinned.op = "getBucket"
    /\ intervened
    /\ seed = 12345

\* the entries whose cumulative weight is above the bucket b
Above(variants, b) ==
    {k \in 1..Len(variants) : CumulativeWeight(variants, k) > b}

\* C18: on a non-empty list getVariant returns the name of the first entry
\* whose cumulative weight is strictly greater than the bucket, and the name of
\* the last entry when there is none.
C18_SelectionRule ==
    (last.op = "getVariant" /\ last.variants # <<>>) =>
        LET above == Above(last.variants, LastBucket)
        IN  IF above = {}
            THEN last.result = last.variants[Len(last.variants)].name
            ELSE \E k \in above :
                    /\ \A j \in above : k <= j
                    /\ last.result = last.variants[k].name

\* getVariant has returned the third entry, the second having brought the
\* cumulative weight down
C18_Witness ==
    /\ last.op = "getVariant"
    /\ Len(last.variants) = 3
    /\ last.variants[2].weight < 0
    /\ Above(last.variants, LastBucket) = {3}
    /\ last.result = last.variants[3].name

\* entry k is returned for some bucket
Reachable(variants, k) ==
    \E b \in 0..99 : Loop(variants, b, 1, 0) = variants[k].name

\* the cumulative range of entry k holds a bucket
RangeHoldsBucket(variants, k) ==
    \E b \in 0..99 :
        /\ CumulativeWeight(variants, k - 1) <= b
        /\ b < CumulativeWeight(variants, k)

\* C19, as claimed: when the weights (zero and negative ones included) sum to
\* more than 100, an entry is returned for some bucket exactly when its
\* cumulative range holds a bucket of 0..99.
C19_ReachableAnyWeights ==
    (last.op = "getVariant" /\ TotalWeight(last.variants) > 100) =>
        \A k \in 1..Len(last.variants) :
            Reachable(last.variants, k) <=> RangeHoldsBucket(last.variants, k)

\* C19, amended: when non-negative weights (zero included) sum to more than
\* 100, an entry is returned for some bucket exactly when its cumulative range
\* holds a bucket of 0..99.
C19_ReachableNonNegative ==
    (/\ last.op = "getVariant"
     /\ NonNegative(last.variants)
     /\ TotalWeight(last.variants) > 100) =>
        \A k \in 1..Len(last.variants) :
            Reachable(last.variants, k) <=> RangeHoldsBucket(last.variants, k)

\* getVariant has returned the third entry of a list summing to more than 100
\* whose second weight is zero
C19_Witness ==
    /\ last.op = "getVariant"
    /\ Len(last.variants) = 3
    /\ NonNegative(last.variants)
    /\ TotalWeight(last.variants) > 100
    /\ last.variants[2].weight = 0
    /\ last.result = last.variants[3].name

\* feature + ':' + identifier
Concatenation(feature, identifier) == feature \o <<":">> \o identifier

\* C20: two calls of the same method whose feature and identifier concatenate
\* to the same string, with the same percentage or variant list, return the
\* same result on one instance.
C20_Aliasing ==
    (/\ pinned.op # "none"
     /\ pinned.op = last.op
     /\ Concatenation(pinned.feature, pinned.identifier)
            = Concatenation(last.feature, last.identifier)
     /\ pinned.percentage = last.percentage
     /\ pinned.variants = last.variants) =>
        last.result = pinned.result

\* isEnabled has returned for ('a:b', 'c') and later for ('a', 'b:c')
C20_Witness ==
    /\ pinned.op = "isEnabled"
    /\ last.op = "isEnabled"
    /\ pinned.feature = <<"a", ":", "b">>
    /\ pinned.identifier = <<"c">>
    /\ last.feature = <<"a">>
    /\ last.identifier = <<"b", ":", "c">>
    /\ pinned.percentage = 35
    /\ last.percentage = 35
    /\ last.result = pinned.result

\* C11: two instances constructed with the same seed return the same result
\* for the same call (getBucket, isEnabled or getVariant with the same
\* arguments), whatever calls each has served before.
C11_CrossInstance ==
    (/\ made[1] = made[2]
     /\ last.op # "none"
     /\ SameCall(last, peer.last)) =>
        last.result = peer.last.result

\* both instances, made with one seed, have returned for the same getBucket
\* call after another key was hashed
C11_Witness ==
    /\ made[1] = made[2]
    /\ last.op = "getBucket"
    /\ SameCall(last, peer.last)
    /\ Cardinality(DOMAIN hashTable) = 2
    /\ last.result = peer.last.result

\* what the call of a frame returns when it runs alone
Alone(f) ==
    IF f.call.op = "getBucket"
    THEN getBucket(hashTable, SeedOf(f.inst), f.call.feature, f.call.identifier)
    ELSE IF f.call.op = "isEnabled"
    THEN isEnabled(hashTable, SeedOf(f.inst), f.call.feature, f.call.identifier,
                   f.call.percentage)
    ELSE getVariant(hashTable, SeedOf(f.inst), f.call.feature, f.call.identifier,
                    f.call.variants)

\* C14: with callers interleaved statement by statement on the same instance
\* or on different ones, every call returns the value it returns when run
\* alone.
C14_Interleaving ==
    \A t \in DOMAIN tasks :
        tasks[t].pc = "done" => tasks[t].call.result = Alone(tasks[t])

\* a getVariant call has returned from the fallback while another getVariant
\* loop on the same instance is in its second iteration
C14_Witness ==
    /\ DOMAIN tasks = Tasks
    /\ tasks[1].pc = "done"
    /\ tasks[1].call.op = "getVariant"
    /\ Len(tasks[1].call.variants) = 3
    /\ tasks[1].call.result = "c"
    /\ tasks[2].pc = "loop"
    /\ tasks[2].k = 2
    /\ tasks[2].inst = tasks[1].inst

\* h mod 100 of a signed or unsigned 32-bit h, the result in 0..99
Mod100(x) ==
    LET m == ((x.hi % 100) * 36 + (x.lo % 100)) % 100
    IN  IF x.neg THEN (100 - m) % 100 ELSE m

\* C21, as claimed: for every value h of the hash, signed or unsigned, getBucket
\* returns h mod 100 (taken as the non-negative residue, or as the remainder
\* with the sign of h).
C21_ModAnyHash ==
    last.op = "getBucket" =>
        \/ last.result = Mod100(LastHash)
        \/ last.result = Rem100(LastHash)

\* C21, amended: for every value h of the hash, signed or unsigned, getBucket
\* returns |h| mod 100, which is h mod 100 when h is not negative; 2847562934
\* gives 34 and 1523847123 gives 23.
C21_ModAbs ==
    last.op = "getBucket" =>
        /\ last.result = Mod100(MathAbs(LastHash))
        /\ ~LastHash.neg => last.result = Mod100(LastHash)
        /\ LastHash = Int32(FALSE, 43450, 23734) => last.result = 34
        /\ LastHash = Int32(FALSE, 23252, 4051) => last.result = 23

\* getBucket has returned 1 on a hash of -1, whose residue modulo 100 is 99
C21_Witness ==
    /\ last.op = "getBucket"
    /\ LastHash = Int32(TRUE, 0, 1)
    /\ last.result = 1
    /\ Mod100(LastHash) = 99

\* a caller is inside a method
Running(t) == tasks[t].pc \in {"entered", "compare", "loop"}

\* the step of caller t leaves the for loop of getVariant by a return
LeavesLoop(t) == tasks[t].pc = "loop" /\ tasks'[t].pc = "done"

\* C22: every call of getBucket, isEnabled and getVariant that has been entered
\* returns; the for loop of getVariant never goes past the n entries of its
\* list, and it returns at the first entry whose cumulative weight exceeds the
\* bucket, before any later entry is examined, or after the n-th iteration when
\* there is no such entry.
C22_Termination ==
    /\ \A t \in Tasks : Running(t) ~> (tasks[t].pc = "done")
    /\ [](\A t \in Tasks :
            tasks[t].pc = "loop" => tasks[t].k \in 1..(Len(tasks[t].call.variants) + 1))
    /\ [][\A t \in Tasks :
            LeavesLoop(t) =>
                LET above == Above(tasks[t].call.variants, tasks[t].bucket)
                IN  IF above = {}
                    THEN tasks[t].k = Len(tasks[t].call.variants) + 1
                    ELSE /\ tasks[t].k \in above
                         /\ \A j \in above : tasks[t].k <= j]_Position

\* a getVariant call on three entries has returned the first, its loop never
\* having reached the second, while the other caller is still inside isEnabled
C22_Witness ==
    /\ DOMAIN tasks = Tasks
    /\ tasks[1].pc = "done"
    /\ tasks[1].call.op = "getVariant"
    /\ Len(tasks[1].call.variants) = 3
    /\ tasks[1].call.result = "a"
    /\ tasks[2].pc = "compare"

\* [{name: on, weight: P}, {name: off, weight: 100 - P}]
TwoWay(P) == <<Variant("on", P), Variant("off", 100 - P)>>

\* a list of two entries of different names that splits 100 in two
SplitsHundred(variants) ==
    /\ Len(variants) = 2
    /\ variants[1].name # variants[2].name
    /\ variants[1].weight \in 0..100
    /\ variants[2].weight = 100 - variants[1].weight

\* C23: for every integer P from 0 to 100, isEnabled(feature, identifier, P) is
\* true exactly when getVariant on the two-way split [on: P, off: 100 - P]
\* returns on; and getVariant on a list that splits 100 in two returns its
\* first entry exactly when isEnabled is true for the first weight.
C23_TwoWaySplit ==
    /\ (last.op = "isEnabled" /\ last.percentage \in 0..100) =>
            (last.result <=>
                (getVariant(hashTable, seed, last.feature, last.identifier,
                            TwoWay(last.percentage)) = "on"))
    /\ (last.op = "getVariant" /\ SplitsHundred(last.variants)) =>
            ((last.result = last.variants[1].name) <=>
                isEnabled(hashTable, seed, last.feature, last.identifier,
                          last.variants[1].weight))

\* isEnabled has returned true for 35 percent on bucket 34, the last bucket of
\* the on side of the split
C23_Witness ==
    /\ last.op = "isEnabled"
    /\ last.percentage = 35
    /\ LastBucket = 34
    /\ last.result
    /\ getVariant(hashTable, seed, last.feature, last.identifier, TwoWay(35)) = "on"

\* C24: getVariant never returns an entry of zero or negative weight that is
\* not the last of its list, wherever it sits and whatever the other weights
\* are; a last entry of zero or negative weight is returned only by the
\* fallback, when no cumulative weight exceeds the bucket.
C24_NoWeightNoReturn ==
    (last.op = "getVariant" /\ last.variants # <<>>) =>
        LET n == Len(last.variants) IN
        /\ \A k \in 1..(n - 1) :
               last.variants[k].weight <= 0 => last.result # last.variants[k].name
        /\ (last.variants[n].weight <= 0 /\ last.result = last.variants[n].name) =>
               Above(last.variants, LastBucket) = {}

\* getVariant has passed over a first entry of weight zero and a second of
\* negative weight, and returned the third, of weight zero, by the fallback
C24_Witness ==
    /\ last.op = "getVariant"
    /\ Len(last.variants) = 3
    /\ last.variants[1].weight = 0
    /\ last.variants[2].weight < 0
    /\ last.variants[3].weight = 0
    /\ LastBucket = 0
    /\ last.result = last.variants[3].name

\* C25: for every bucket and every variant list, the empty list included, the
\* getVariant printed in the technical blog (no guard on the empty list)
\* returns what the shipped getVariant returns.
C25_BlogEquivalence ==
    last.op = "getVariant" =>
        last.result = getVariantBlog(hashTable, seed, last.feature, last.identifier,
                                     last.variants)

\* the shipped getVariant has returned null from its guard on the empty list,
\* where the blog's version gets to null through its fallback
C25_Witness ==
    /\ last.op = "getVariant"
    /\ last.variants = <<>>
    /\ last.result = Null
    /\ Loop(<<>>, LastBucket, 1, 0) = Null

====
